---- MODULE Spec2Model ----
(***************************************************************************)
(* Model of server_updater/main.py (class ServerUpdater): the menu loop    *)
(* (run, run_choice, _get_choices, _default, _quit) and the operations it  *)
(* dispatches to, above all "update mods only": the reconciliation pass    *)
(* _update_mods with _delete_mod_if_needed, _mod_needs_update and          *)
(* _try_to_update_mod, followed by _lower_case_mods, _create_mod_symlinks  *)
(* and _copy_key_files. The filesystem, the remote changelog, SteamCmd and *)
(* the user at the prompt are the environment.                             *)
(***************************************************************************)
EXTENDS Integers, Sequences, FiniteSets, TLC

\* ------------------------------------------------------------------ bounds
\* Passes of update-mods that may be started in one behaviour.
MaxRuns == 2
\* Times the process may be killed in one behaviour.
MaxKills == 1
\* Remote changelog updates that may be published in one behaviour.
MaxRemoteUpdates == 1

\* max_tries of _try_to_update_mod (and the literal 10 of its loop condition).
MaxTries == 10

\* -------------------------------------------------------------- the inputs
\* Keys of the mods-list JSON (mod names) and the workshop ids they map to.
Names == {"@ace", "@cba"}
Ids == {"101", "202"}

\* The remote response holds no timestamp marker (PATTERN does not match).
NoMarker == -1

\* What can be found at A3_MODS_DIR/<mod_name>: nothing, something that is
\* not a symbolic link, or a symbolic link to A3_WORKSHOP_DIR/<id>.
NoEntry == "none"
NonLink == "nonlink"
LinkStates == {NoEntry, NonLink} \cup Ids

\* ------------------------------------------------- directory trees (paths)
\* A content tree is a set of entries; an entry's path is the sequence of
\* its components below A3_WORKSHOP_DIR/<id>; "d" is a directory, "f" a file.
Dir(p) == [path |-> p, kind |-> "d", data |-> ""]
File(p, d) == [path |-> p, kind |-> "f", data |-> d]

\* str.lower() on one path component.
Lower(s) ==
    CASE s = "UPPER_DIR" -> "upper_dir"
      [] s = "MixedCase.PBO" -> "mixedcase.pbo"
      [] s = "Keys" -> "keys"
      [] s = "Ace.bikey" -> "ace.bikey"
      [] OTHER -> s

\* str.lower() on a whole path: os.path.join(root, filename).lower(). The
\* prefix A3_WORKSHOP_DIR/<id> is lower-case already (config.py) and is left out.
LowerPath(p) == [k \in 1..Len(p) |-> Lower(p[k])]

\* file.endswith(".bikey")
EndsWithBikey(s) == s \in {"Ace.bikey", "ace.bikey", "cba.bikey"}

\* The order in which a directory listing returns its entries.
NameOrder ==
    <<"Ace.bikey", "ace.bikey", "cba.bikey", "MixedCase.PBO", "mixedcase.pbo",
      "main.pbo", "Keys", "keys", "UPPER_DIR", "upper_dir", "addons">>

IsPrefix(p, q) == Len(p) <= Len(q) /\ SubSeq(q, 1, Len(p)) = p
PathExists(t, p) == \E e \in t : e.path = p
PathIsDir(t, p) == p = <<>> \/ \E e \in t : e.path = p /\ e.kind = "d"
PathIsFile(t, p) == \E e \in t : e.path = p /\ e.kind = "f"
Below(t, p) == {e \in t : IsPrefix(p, e.path) /\ e.path # p}
Parent(p) == SubSeq(p, 1, Len(p) - 1)

\* The names of the entries of one kind directly inside directory root, as a
\* sequence in listing order.
Listing(t, root, kind) ==
    LET here == {e.path[Len(root) + 1] :
                   e \in {x \in t : /\ Len(x.path) = Len(root) + 1
                                    /\ IsPrefix(root, x.path)
                                    /\ x.kind = kind}}
    IN SelectSeq(NameOrder, LAMBDA n : n \in here)

\* os.rename(old, new) raises OSError (POSIX rename(2)); bad is the set of
\* paths whose rename the operating system refuses for a reason of its own.
RenameFails(t, old, new, bad) ==
    \/ old \in bad
    \/ ~PathExists(t, old)
    \/ ~PathIsDir(t, Parent(new))
    \/ PathIsFile(t, old) /\ PathIsDir(t, new)
    \/ PathIsDir(t, old) /\ PathIsFile(t, new)
    \/ PathIsDir(t, old) /\ PathIsDir(t, new) /\ Below(t, new) # {}

\* The tree after a successful os.rename(old, new): the entry and everything
\* below it move, an entry that was at new is replaced.
Renamed(t, old, new) ==
    LET moving == {e \in t : IsPrefix(old, e.path)}
        moved == {[e EXCEPT !.path = new \o SubSeq(e.path, Len(old) + 1, Len(e.path))] :
                    e \in moving}
    IN ((t \ moving) \ {e \in t : e.path = new}) \cup moved

RECURSIVE RenameEntries(_, _, _, _)
\* The inner loop of _lower_case_mods over files + dirs of one directory:
\* every entry whose lower-cased full path differs is renamed to it, and an
\* OSError is caught and the loop goes on.
RenameEntries(t, root, names, bad) ==
    IF names = <<>> THEN t
    ELSE LET old == Append(root, Head(names))
             new == LowerPath(old)
             t1 == IF new = old \/ RenameFails(t, old, new, bad)
                   THEN t
                   ELSE Renamed(t, old, new)
         IN RenameEntries(t1, root, Tail(names), bad)

RECURSIVE LowerCaseTree(_, _, _), LowerCaseDirs(_, _, _, _)
\* os.walk(top), top-down, with the loop body of _lower_case_mods run on each
\* directory it yields: the listing of top is taken first, the entries are
\* renamed, and then os.walk descends into the directories of that listing
\* under the names they had when listed; one that cannot be listed any more
\* is passed over silently (os.walk's onerror is None).
LowerCaseTree(t, top, bad) ==
    IF ~PathIsDir(t, top) THEN t
    ELSE LET files == Listing(t, top, "f")
             dirs == Listing(t, top, "d")
             t1 == RenameEntries(t, top, files \o dirs, bad)
         IN LowerCaseDirs(t1, top, dirs, bad)

LowerCaseDirs(t, top, dirs, bad) ==
    IF dirs = <<>> THEN t
    ELSE LowerCaseDirs(LowerCaseTree(t, Append(top, Head(dirs)), bad),
                       top, Tail(dirs), bad)

RECURSIVE KeyFiles(_, _), KeyFilesDirs(_, _, _)
\* The files ending in .bikey that os.walk(top) meets in _copy_key_files, as
\* the sequence of their entries in the order they are met.
KeyFiles(t, top) ==
    IF ~PathIsDir(t, top) THEN <<>>
    ELSE LET files == SelectSeq(Listing(t, top, "f"), EndsWithBikey)
             here == [k \in 1..Len(files) |->
                        CHOOSE e \in t : e.path = Append(top, files[k])]
         IN here \o KeyFilesDirs(t, top, Listing(t, top, "d"))

KeyFilesDirs(t, top, dirs) ==
    IF dirs = <<>> THEN <<>>
    ELSE KeyFiles(t, Append(top, Head(dirs))) \o KeyFilesDirs(t, top, Tail(dirs))

\* Mutant of CopyAll: a file of the keys directory is not overwritten.
CopyAll_KeepsExisting(k, files) ==
    k \cup {File(<<files[j].path[Len(files[j].path)]>>, files[j].data) :
              j \in {x \in 1..Len(files) :
                       /\ ~PathExists(k, <<files[x].path[Len(files[x].path)]>>)
                       /\ \A y \in 1..(x - 1) :
                            files[y].path[Len(files[y].path)]
                              # files[x].path[Len(files[x].path)]}}

RECURSIVE CopyAll(_, _)
\* shutil.copy of each source file to A3_MOD_KEYS_DESTINATION_DIRECTORY/<file>:
\* the keys directory is flat and a file of the same name is overwritten.
CopyAll(k, files) ==
    IF files = <<>> THEN k
    ELSE LET f == Head(files)
             name == f.path[Len(f.path)]
         IN CopyAll({e \in k : e.path # <<name>>} \cup {File(<<name>>, f.data)},
                    Tail(files))

\* What SteamCmd downloads for a workshop id.
RemoteTree(i) ==
    IF i = "101"
    THEN {Dir(<<"UPPER_DIR">>), File(<<"UPPER_DIR", "MixedCase.PBO">>, "pbo"),
          Dir(<<"Keys">>), File(<<"Keys", "Ace.bikey">>, "ace-key")}
    ELSE {Dir(<<"addons">>), File(<<"addons", "main.pbo">>, "pbo"),
          File(<<"cba.bikey">>, "cba-key")}

\* The renames the operating system may refuse during one walk.
BadRenames == {{}, {<<"Keys">>}}

\* The names of the key files whose copy the operating system may refuse
\* during one call of _copy_key_files.
BadCopies == {{}, {"Ace.bikey"}, {"ace.bikey"}, {"cba.bikey"}}

\* ------------------------------------------------------------------- state
VARIABLES
    idOf,           \* the mods list (_get_mods): mod name -> workshop id
    order,          \* the order in which the mapping's items are iterated
    dir,            \* os.path.isdir(A3_WORKSHOP_DIR/<id>)
    ctime,          \* os.path.getctime(A3_WORKSHOP_DIR/<id>), read as the time
                    \* the directory was created (created_at)
    content,        \* the tree below A3_WORKSHOP_DIR/<id>
    link,           \* what is at A3_MODS_DIR/<mod_name>
    keys,           \* the files of A3_MOD_KEYS_DESTINATION_DIRECTORY
    remote,         \* the timestamp of the changelog page of <id>, or NoMarker
    clock,          \* the time
    pc,             \* where the process is
    idx,            \* the position of the running for-loop in its sequence
    is_dir,         \* parameter is_dir of _try_to_update_mod
    tries,          \* local tries of _try_to_update_mod
    updated_mods,   \* local updated_mods of _update_mods, in insertion order
    was_copied,     \* local was_copied of _copy_key_files
    plan,           \* per mod, what the pass found: ABSENT, PRESENT_FRESH, PRESENT_STALE
    term,           \* per mod, the terminal state the pass reported
    fetchCount,     \* per mod, SteamCmd runs made for it in this pass
    fetchResult,    \* per mod, when its directory first existed: after the
                    \* "first" attempt, a "later" one, or "never" so far
    producedAfter,  \* for the mod of the last fetch path, the attempt after
                    \* which its directory first existed (0: none)
    netReads,       \* per mod, changelog reads made for it in this pass
    fetched,        \* ids whose directory a SteamCmd run of this pass produced
    keyReport,      \* what _copy_key_files printed last
    outcome,        \* how the last operation ended
    runs,           \* passes started
    kills,          \* times the process was killed
    remoteUpdates,  \* changelog updates published
    missed,         \* some SteamCmd run left an absent directory absent
    init0,          \* the filesystem and remote state of the initial state
    server,         \* self._server, the server type chosen at start-up
    selected,       \* local selected of run: the input being dispatched
    warned,         \* mods _create_mod_symlinks printed "does not exist" for
    callArg,        \* the arguments of a function called on its own
    callRet         \* what that call returned

vars == <<idOf, order, dir, ctime, content, link, keys, remote, clock, pc, idx,
          is_dir, tries, updated_mods, was_copied, plan, term, fetchCount,
          fetchResult, producedAfter, netReads, fetched, keyReport, outcome, runs, kills,
          remoteUpdates, missed, init0, server, selected, warned, callArg, callRet>>

config == <<idOf, order, init0, server>>
call == <<callArg, callRet>>
filesystem == <<dir, ctime, content, link, keys>>
history == <<plan, term, fetchCount, fetchResult, producedAfter, netReads, fetched>>

Stages == {"_lower_case_mods", "_create_mod_symlinks", "_copy_key_files"}

\* ServerType: the two values of self._server.
Servers == {"A3", "REFORGER"}

\* What the user may type at the prompt: the letters of the menus, an upper
\* case letter and a string no menu offers. NoInput: nothing is being dispatched.
Inputs == {"a", "b", "c", "d", "e", "f", "q", "Q", "x"}
NoInput == ""

\* selected.lower()
LowerInput(s) == IF s = "Q" THEN "q" ELSE s

\* The keys of the dictionary _get_choices builds for a server type.
Offered(srv) ==
    IF srv = "A3" THEN {"a", "b", "c", "d", "e", "f", "q"} ELSE {"a", "b", "c", "q"}

\* No function is being called on its own.
NoCall == "none"

\* The mods lists of the model: two names with ids of their own, or two names
\* of one id; iterated in either order.
ModsLists ==
    {[n \in Names |-> IF n = "@ace" THEN "101" ELSE "202"], [n \in Names |-> "101"]}
Orders == {<<"@ace", "@cba">>, <<"@cba", "@ace">>}

\* The process is at the prompt. Directories that exist were created at
\* time 1, the time is 2, and a changelog timestamp is missing, earlier than,
\* equal to or later than that creation time. Something is found at a link
\* path only in the list where a stage can meet a content directory (the
\* one with a shared id); an id no mod uses has no directory. The server
\* is an Arma 3 server.
Init ==
    /\ server = "A3"
    /\ idOf \in ModsLists
    /\ order \in Orders
    /\ dir \in [Ids -> BOOLEAN]
    /\ "202" \notin {idOf[n] : n \in Names} => ~dir["202"]
    /\ ctime = [i \in Ids |-> IF dir[i] THEN 1 ELSE 0]
    /\ content = [i \in Ids |-> IF dir[i] THEN RemoteTree(i) ELSE {}]
    /\ link \in {[n \in Names |-> IF n = "@ace" THEN l ELSE NoEntry] :
                   l \in {NoEntry, NonLink, "101"}}
    /\ "202" \in {idOf[n] : n \in Names} => link["@ace"] = NoEntry
    /\ keys = {File(<<"ace.bikey">>, "old-key")}
    /\ remote \in [Ids -> {NoMarker, 0, 1, 2}]
    /\ remote["202"] \in {0, 2}
    /\ "202" \notin {idOf[n] : n \in Names} => remote["202"] = 0
    /\ clock = 2
    /\ pc = "prompt"
    /\ idx = 1
    /\ is_dir = FALSE
    /\ tries = 0
    /\ updated_mods = <<>>
    /\ was_copied = FALSE
    /\ plan = [n \in Names |-> "none"]
    /\ term = [n \in Names |-> "none"]
    /\ fetchCount = [n \in Names |-> 0]
    /\ fetchResult = [n \in Names |-> "none"]
    /\ producedAfter = 0
    /\ netReads = [n \in Names |-> 0]
    /\ fetched = {}
    /\ keyReport = "none"
    /\ outcome = "none"
    /\ runs = 0
    /\ kills = 0
    /\ remoteUpdates = 0
    /\ missed = FALSE
    /\ init0 = [dir |-> dir, ctime |-> ctime, link |-> link, keys |-> keys,
                remote |-> remote]
    /\ selected = NoInput
    /\ warned = {}
    /\ callArg = NoCall
    /\ callRet = NoCall

\* ------------------------------------------------------- the Staleness Oracle
\* Mutant of NeedsUpdate: the comparison is strict.
NeedsUpdate_Strict(isd, marker, created) ==
    IF ~isd THEN FALSE
    ELSE IF marker = NoMarker THEN FALSE
    ELSE marker > created

\* _mod_needs_update(mod_id, path), given os.path.isdir(path), the timestamp
\* PATTERN finds in the response (NoMarker: no match) and
\* os.path.getctime(path): updated_at >= created_at.
NeedsUpdate(isd, marker, created) ==
    IF ~isd THEN FALSE
    ELSE IF marker = NoMarker THEN FALSE
    ELSE marker >= created

\* _mod_needs_update on the content directory of id i as it is now.
ModNeedsUpdate(i) == NeedsUpdate(dir[i], remote[i], ctime[i])

\* The changelog reads (request.urlopen) one call of _mod_needs_update makes.
NetworkReads(i) == IF dir[i] THEN 1 ELSE 0

\* ------------------------------------------------------------ the menu loop
\* Mutant of Catches: run catches every exception.
Catches_Any(exc) == TRUE

\* The except clause of run: KeyError and nothing else.
Catches(exc) == exc = "KeyError"

\* An exception leaves run_choice. One that run catches runs _default, which
\* prints the options, and the loop prompts again; any other ends the process.
Raise(exc) ==
    IF Catches(exc)
    THEN pc' = "prompt" /\ outcome' = "options"
    ELSE pc' = "crashed" /\ outcome' = "crashed"

\* run reads a line at the prompt (_input), one of typed, and calls
\* run_choice with it. A pass of update-mods is asked for at most MaxRuns times.
InputFrom(typed) ==
    /\ pc = "prompt"
    /\ \E s \in typed :
         /\ (server = "A3" /\ LowerInput(s) \in {"a", "b"}) => runs < MaxRuns
         /\ selected' = s
    /\ pc' = "run_choice"
    /\ UNCHANGED <<call, config, filesystem, remote, clock, idx, is_dir, tries,
                   updated_mods, was_copied, history, keyReport, outcome, runs,
                   kills, remoteUpdates, missed, warned>>

\* The user types anything.
Input == InputFrom(Inputs)

\* The user asks for "Update Mods only".
InputUpdateMods == InputFrom({"b"})

\* run_choice looks up selected.lower() in the choices of the server type
\* and finds one of letters.
Dispatches(srv, letters) ==
    /\ pc = "run_choice"
    /\ server = srv
    /\ LowerInput(selected) \in letters

\* The lookup of run_choice raises KeyError for a string the menu does not
\* offer: no operation is called.
Default ==
    /\ pc = "run_choice"
    /\ LowerInput(selected) \notin Offered(server)
    /\ Raise("KeyError")
    /\ selected' = NoInput
    /\ UNCHANGED <<call, config, filesystem, remote, clock, idx, is_dir, tries,
                   updated_mods, was_copied, history, keyReport, runs, kills,
                   remoteUpdates, missed, warned>>

\* _quit: sys.exit() raises SystemExit, which run does not catch.
Quit ==
    /\ \E srv \in Servers : Dispatches(srv, {"q"})
    /\ pc' = "exited"
    /\ outcome' = "exited"
    /\ selected' = NoInput
    /\ UNCHANGED <<call, config, filesystem, remote, clock, idx, is_dir, tries,
                   updated_mods, was_copied, history, keyReport, runs, kills,
                   remoteUpdates, missed, warned>>

\* _update_server on either server type, and on a Reforger server
\* _update_server_and_run_reforger and _run_reforger_server: SteamCmd updates
\* the server, the Reforger server runs until it ends (os.system), and the
\* operation returns. None of it touches the mods.
UpdateServer ==
    /\ \/ \E srv \in Servers : Dispatches(srv, {"c"})
       \/ Dispatches("REFORGER", {"a", "b"})
    /\ pc' = "prompt"
    /\ outcome' = "returned"
    /\ selected' = NoInput
    /\ UNCHANGED <<call, config, filesystem, remote, clock, idx, is_dir, tries,
                   updated_mods, was_copied, history, keyReport, runs, kills,
                   remoteUpdates, missed, warned>>

\* The choices d, e and f of an Arma 3 server: run_choice calls the bound
\* methods _create_mod_symlinks, _lower_case_mods and _copy_key_files with
\* no argument, and each requires updated_mods: TypeError.
StageWithoutArgument ==
    /\ Dispatches("A3", {"d", "e", "f"})
    /\ Raise("TypeError")
    /\ selected' = NoInput
    /\ UNCHANGED <<call, config, filesystem, remote, clock, idx, is_dir, tries,
                   updated_mods, was_copied, history, keyReport, runs, kills,
                   remoteUpdates, missed, warned>>

\* ------------------------------------------------------------ the Reconciler
\* _update_mods_only up to the first iteration of _update_mods: the mods list
\* is loaded and updated_mods starts empty. Choice b calls it; choice a calls
\* _update_server_and_mods, which runs _update_server (nothing of the mods
\* changes) and then calls it.
UpdateModsOnly ==
    /\ Dispatches("A3", {"a", "b"})
    /\ selected' = NoInput
    /\ warned' = {}
    /\ runs' = runs + 1
    /\ pc' = "_update_mods"
    /\ idx' = 1
    /\ updated_mods' = <<>>
    /\ was_copied' = FALSE
    /\ is_dir' = FALSE
    /\ tries' = 0
    /\ plan' = [n \in Names |-> "none"]
    /\ term' = [n \in Names |-> "none"]
    /\ fetchCount' = [n \in Names |-> 0]
    /\ fetchResult' = [n \in Names |-> "none"]
    /\ producedAfter' = 0
    /\ netReads' = [n \in Names |-> 0]
    /\ fetched' = {}
    /\ keyReport' = "none"
    /\ outcome' = "none"
    /\ UNCHANGED <<call, config, filesystem, remote, clock, kills, remoteUpdates, missed>>

\* The tuple _delete_mod_if_needed returns: (is_dir, mod_needs_update).
DeleteReturns(i) ==
    IF ~dir[i] THEN <<FALSE, FALSE>>
    ELSE IF ~ModNeedsUpdate(i) THEN <<TRUE, FALSE>>
    ELSE <<TRUE, TRUE>>

\* _delete_mod_if_needed reaches shutil.rmtree(mod_path).
Deletes(i) == dir[i] /\ ModNeedsUpdate(i)

\* Mutant of SkipsMod: the negation of mod_needs_update is lost.
SkipsMod_NotDropped(isd, needs) == isd /\ needs

\* The test of _update_mods that skips a mod: is_dir and not mod_needs_update.
SkipsMod(isd, needs) == isd /\ ~needs

\* Mutant of TriesAtEntry: the count of the previous mod is carried over.
TriesAtEntry_Kept(t) == t

\* tries at the start of _try_to_update_mod, given its value at the end of
\* the previous call: tries = 0.
TriesAtEntry(t) == 0

\* One iteration of the loop of _update_mods up to the call of
\* _try_to_update_mod: _delete_mod_if_needed (two calls of the oracle, the
\* first one's answer unused, then the rmtree of a stale directory) and the
\* skip of a mod that is present and needs no update.
DeleteModIfNeeded ==
    /\ pc = "_update_mods"
    /\ idx <= Len(order)
    /\ LET n == order[idx]
           i == idOf[n]
           ret == DeleteReturns(i)
       IN /\ netReads' = [netReads EXCEPT ![n] = @ + 2 * NetworkReads(i)]
          /\ plan' = [plan EXCEPT ![n] =
                        IF ~dir[i] THEN "ABSENT"
                        ELSE IF ModNeedsUpdate(i) THEN "PRESENT_STALE"
                        ELSE "PRESENT_FRESH"]
          /\ IF Deletes(i)
             THEN /\ dir' = [dir EXCEPT ![i] = FALSE]
                  /\ ctime' = [ctime EXCEPT ![i] = 0]
                  /\ content' = [content EXCEPT ![i] = {}]
                  /\ fetched' = fetched \ {i}
             ELSE UNCHANGED <<dir, ctime, content, fetched>>
          /\ IF SkipsMod(ret[1], ret[2])
             THEN /\ term' = [term EXCEPT ![n] = "SKIPPED"]
                  /\ idx' = idx + 1
                  /\ UNCHANGED <<pc, is_dir, tries>>
             ELSE /\ pc' = "_try_to_update_mod"
                  /\ is_dir' = ret[1]
                  /\ tries' = TriesAtEntry(tries)
                  /\ UNCHANGED <<term, idx>>
    /\ producedAfter' = 0
    /\ UNCHANGED <<call, config, selected, warned, link, keys, remote, clock, updated_mods, was_copied,
                   fetchCount, fetchResult, keyReport, outcome, runs, kills,
                   remoteUpdates, missed>>

\* The loop condition of _try_to_update_mod: not is_dir and tries < 10.
KeepsTrying(isd, t) == ~isd /\ t < MaxTries

\* One iteration of the loop of _try_to_update_mod: one run of SteamCmd for
\* the mod, which may or may not leave the content directory in place, then
\* the sleep and tries += 1. is_dir is not assigned in the loop.
TrySteamCmd ==
    /\ pc = "_try_to_update_mod"
    /\ KeepsTrying(is_dir, tries)
    /\ LET n == order[idx]
           i == idOf[n]
       IN /\ \E produces \in BOOLEAN :
                IF ~dir[i] /\ produces
                THEN /\ dir' = [dir EXCEPT ![i] = TRUE]
                     /\ ctime' = [ctime EXCEPT ![i] = clock]
                     /\ content' = [content EXCEPT ![i] = RemoteTree(i)]
                     /\ fetched' = fetched \cup {i}
                     /\ UNCHANGED missed
                ELSE /\ missed' = (missed \/ ~dir[i])
                     /\ UNCHANGED <<dir, ctime, content, fetched>>
          /\ tries' = tries + 1
          /\ fetchCount' = [fetchCount EXCEPT ![n] = @ + 1]
          /\ producedAfter' = IF producedAfter = 0 /\ dir'[i]
                              THEN tries'
                              ELSE producedAfter
          /\ fetchResult' = [fetchResult EXCEPT ![n] =
                               IF tries' = 1
                               THEN IF dir'[i] THEN "first" ELSE "never"
                               ELSE IF @ = "never" /\ dir'[i] THEN "later" ELSE @]
    /\ UNCHANGED <<call, config, selected, warned, link, keys, remote, clock, pc, idx, is_dir,
                   updated_mods, was_copied, plan, term, netReads, keyReport,
                   outcome, runs, kills, remoteUpdates>>

\* What _try_to_update_mod returns once its loop has ended: False when
\* tries >= max_tries.
TryReturns(t) == ~(t >= MaxTries)

\* The end of _try_to_update_mod and of the iteration of _update_mods that
\* called it: the mod is logged as failed, or entered into updated_mods.
TryToUpdateModReturn ==
    /\ pc = "_try_to_update_mod"
    /\ ~KeepsTrying(is_dir, tries)
    /\ LET n == order[idx]
       IN IF TryReturns(tries)
          THEN /\ updated_mods' = Append(updated_mods, n)
               /\ term' = [term EXCEPT ![n] = "UPDATED"]
          ELSE /\ term' = [term EXCEPT ![n] = "FAILED"]
               /\ UNCHANGED updated_mods
    /\ pc' = "_update_mods"
    /\ idx' = idx + 1
    /\ UNCHANGED <<call, config, selected, warned, filesystem, remote, clock, is_dir, tries, was_copied,
                   plan, fetchCount, fetchResult, producedAfter, netReads,
                   fetched, keyReport, outcome, runs, kills, remoteUpdates, missed>>

\* Mutant of StageInput: the stages are handed the whole mods list.
StageInput_WholeList(all, upd) == all

\* What _update_mods_only hands to the three stages, given the mods list and
\* the value of updated_mods at the end of _update_mods.
StageInput(all, upd) == upd

\* The return of _update_mods and the test of _update_mods_only: with no
\* updated mod (None) the operation ends, otherwise the stages start.
UpdateModsReturn ==
    /\ pc = "_update_mods"
    /\ idx > Len(order)
    /\ IF updated_mods = <<>>
       THEN /\ pc' = "prompt"
            /\ outcome' = "returned"
            /\ UNCHANGED updated_mods
       ELSE /\ pc' = "_lower_case_mods"
            /\ updated_mods' = StageInput(order, updated_mods)
            /\ UNCHANGED outcome
    /\ idx' = 1
    /\ producedAfter' = 0
    /\ UNCHANGED <<call, config, selected, warned, filesystem, remote, clock, is_dir, tries, was_copied,
                   plan, term, fetchCount, fetchResult, netReads, fetched,
                   keyReport, runs, kills, remoteUpdates, missed>>

\* ---------------------------------------------------------------- the stages
\* One iteration of the outer loop of _lower_case_mods: the walk of the
\* content directory of one mod of its argument (a missing directory yields
\* nothing). After the last mod _create_mod_symlinks starts.
LowerCaseMods ==
    /\ pc = "_lower_case_mods"
    /\ idx <= Len(updated_mods)
    /\ LET i == idOf[updated_mods[idx]]
       IN \E bad \in BadRenames :
            content' = [content EXCEPT ![i] =
                          IF dir[i] THEN LowerCaseTree(@, <<>>, bad) ELSE @]
    /\ IF idx = Len(updated_mods)
       THEN pc' = "_create_mod_symlinks" /\ idx' = 1
       ELSE pc' = pc /\ idx' = idx + 1
    /\ UNCHANGED <<call, config, selected, warned, dir, ctime, link, keys, remote, clock, is_dir, tries,
                   updated_mods, was_copied, history, keyReport, outcome, runs,
                   kills, remoteUpdates, missed>>

\* os.path.isdir(real_path) fails: the warning is printed and the mod passed over.
WarnsMissing(isd) == ~isd

\* os.symlink(real_path, link_path) is reached and raises FileExistsError:
\* link_path holds something that is not a symbolic link.
SymlinkRaises(l, isd) == isd /\ l = NonLink

\* Mutant of LinkedAfter: the link is made whether the directory exists or not.
LinkedAfter_IgnoresTarget(l, i, isd) == IF l = NoEntry THEN i ELSE l

\* Mutant of LinkedAfter: a symbolic link found at link_path is made again.
LinkedAfter_Relinks(l, i, isd) == IF isd /\ l # NonLink THEN i ELSE l

\* What is at link_path after an iteration of _create_mod_symlinks that did
\* not raise, given what was there, the id and os.path.isdir(real_path): a
\* link is made only where the directory exists and islink(link_path) fails.
LinkedAfter(l, i, isd) == IF isd /\ l = NoEntry THEN i ELSE l

\* One iteration of the loop of _create_mod_symlinks: no link and a warning
\* for a mod whose content directory is missing, no link where a symbolic
\* link exists already, otherwise os.symlink, whose FileExistsError nothing
\* but run could catch. After the last mod _copy_key_files starts.
CreateModSymlinks ==
    /\ pc = "_create_mod_symlinks"
    /\ idx <= Len(updated_mods)
    /\ LET n == updated_mods[idx]
           i == idOf[n]
       IN /\ warned' = IF WarnsMissing(dir[i]) THEN warned \cup {n} ELSE warned
          /\ IF SymlinkRaises(link[n], dir[i])
             THEN /\ Raise("FileExistsError")
                  /\ UNCHANGED <<link, idx>>
             ELSE /\ link' = [link EXCEPT ![n] = LinkedAfter(@, i, dir[i])]
                  /\ IF idx = Len(updated_mods)
                     THEN pc' = "_copy_key_files" /\ idx' = 1
                     ELSE pc' = pc /\ idx' = idx + 1
                  /\ UNCHANGED outcome
    /\ UNCHANGED <<call, config, selected, dir, ctime, content, keys, remote,
                   clock, is_dir, tries, updated_mods, was_copied, history,
                   keyReport, runs, kills, remoteUpdates, missed>>

\* The position in files of the first file whose shutil.copy raises, or one
\* past the end when none does.
FirstFailure(files, badc) ==
    LET failing == {k \in 1..Len(files) : files[k].path[Len(files[k].path)] \in badc}
    IN IF failing = {} THEN Len(files) + 1
       ELSE CHOOSE k \in failing : \A j \in failing : k <= j

\* shutil.copy raises for one of files: nothing in _copy_key_files catches it.
CopyRaises(files, badc) == FirstFailure(files, badc) <= Len(files)

\* One iteration of the outer loop of _copy_key_files: every .bikey file of
\* the content tree of one mod is copied to the keys directory, up to the
\* first copy that raises. After the last mod the outcome is printed and the
\* operation returns to the prompt.
CopyKeyFiles ==
    /\ pc = "_copy_key_files"
    /\ idx <= Len(updated_mods)
    /\ \E badc \in BadCopies :
         LET i == idOf[updated_mods[idx]]
             found == IF dir[i] THEN KeyFiles(content[i], <<>>) ELSE <<>>
             done == SubSeq(found, 1, FirstFailure(found, badc) - 1)
             copied == was_copied \/ found # <<>>
         IN /\ keys' = CopyAll(keys, done)
            /\ IF CopyRaises(found, badc)
               THEN /\ Raise("OSError")
                    /\ UNCHANGED <<idx, was_copied, keyReport>>
               ELSE IF idx = Len(updated_mods)
               THEN /\ keyReport' = IF copied THEN "success" ELSE "nothing"
                    /\ pc' = "prompt"
                    /\ outcome' = "returned"
                    /\ idx' = 1
                    /\ was_copied' = FALSE
               ELSE /\ was_copied' = copied
                    /\ idx' = idx + 1
                    /\ UNCHANGED <<pc, keyReport, outcome>>
    /\ UNCHANGED <<call, config, selected, warned, dir, ctime, content, link,
                   remote, clock, is_dir, tries, updated_mods, history, runs,
                   kills, remoteUpdates, missed>>

\* ----------------------------------------------------------- the environment
\* The process is killed inside an operation and started again: it is back
\* at the prompt with no memory of the operation (nothing is persisted).
Kill ==
    /\ pc \notin {"prompt", "run_choice", "crashed", "exited"}
    /\ kills < MaxKills
    /\ kills' = kills + 1
    /\ pc' = "prompt"
    /\ outcome' = "killed"
    /\ idx' = 1
    /\ is_dir' = FALSE
    /\ tries' = 0
    /\ updated_mods' = <<>>
    /\ was_copied' = FALSE
    /\ plan' = [n \in Names |-> "none"]
    /\ term' = [n \in Names |-> "none"]
    /\ fetchCount' = [n \in Names |-> 0]
    /\ fetchResult' = [n \in Names |-> "none"]
    /\ producedAfter' = 0
    /\ netReads' = [n \in Names |-> 0]
    /\ fetched' = {}
    /\ warned' = {}
    /\ UNCHANGED <<call, config, selected, filesystem, remote, clock, keyReport, runs,
                   remoteUpdates, missed>>

\* The author of a mod publishes an update: the changelog page of the id
\* carries the time of publication, later than everything so far. The
\* process reads the page only in _delete_mod_if_needed, so a publication is
\* placed between two operations or between two iterations of _update_mods.
RemoteUpdate ==
    /\ pc \in {"prompt", "_update_mods"}
    /\ remoteUpdates < MaxRemoteUpdates
    /\ \E i \in {idOf[n] : n \in Names} :
         /\ clock' = clock + 1
         /\ remote' = [remote EXCEPT ![i] = clock + 1]
    /\ remoteUpdates' = remoteUpdates + 1
    /\ UNCHANGED <<call, config, selected, warned, filesystem, pc, idx, is_dir, tries, updated_mods,
                   was_copied, history, keyReport, outcome, runs, kills, missed>>

\* The steps of the operation update-mods.
Operation ==
    \/ UpdateModsOnly
    \/ DeleteModIfNeeded
    \/ TrySteamCmd
    \/ TryToUpdateModReturn
    \/ UpdateModsReturn
    \/ LowerCaseMods
    \/ CreateModSymlinks
    \/ CopyKeyFiles

\* The user asks for update-mods again and again; the process may be killed
\* and authors may publish.
Next ==
    \/ InputUpdateMods
    \/ Operation
    \/ Kill
    \/ RemoteUpdate

Spec == Init /\ [][Next]_vars

\* ------------------------------------------------- the menu loop as a whole
\* An Arma 3 server whose two mod names share one id, so that the stages of
\* update-mods find a content directory to work on, or a Reforger server,
\* which has no mods list (_get_mods returns None) and whose operations
\* touch none of the Arma 3 directories.
InitMenu ==
    /\ server \in Servers
    /\ idOf = [n \in Names |-> "101"]
    /\ order \in Orders
    /\ dir \in [Ids -> BOOLEAN]
    /\ ~dir["202"]
    /\ server = "REFORGER" => ~dir["101"]
    /\ ctime = [i \in Ids |-> IF dir[i] THEN 1 ELSE 0]
    /\ content = [i \in Ids |-> IF dir[i] THEN RemoteTree(i) ELSE {}]
    /\ link \in {[n \in Names |-> IF n = "@ace" THEN l ELSE NoEntry] :
                   l \in {NoEntry, NonLink}}
    /\ server = "REFORGER" => link["@ace"] = NoEntry
    /\ keys = {File(<<"ace.bikey">>, "old-key")}
    /\ remote = [i \in Ids |-> IF i = "101" THEN 2 ELSE 0]
    /\ clock = 2
    /\ pc = "prompt"
    /\ idx = 1
    /\ is_dir = FALSE
    /\ tries = 0
    /\ updated_mods = <<>>
    /\ was_copied = FALSE
    /\ plan = [n \in Names |-> "none"]
    /\ term = [n \in Names |-> "none"]
    /\ fetchCount = [n \in Names |-> 0]
    /\ fetchResult = [n \in Names |-> "none"]
    /\ producedAfter = 0
    /\ netReads = [n \in Names |-> 0]
    /\ fetched = {}
    /\ keyReport = "none"
    /\ outcome = "none"
    /\ runs = 0
    /\ kills = 0
    /\ remoteUpdates = 0
    /\ missed = FALSE
    /\ init0 = [dir |-> dir, ctime |-> ctime, link |-> link, keys |-> keys,
                remote |-> remote]
    /\ selected = NoInput
    /\ warned = {}
    /\ callArg = NoCall
    /\ callRet = NoCall

\* One iteration of run after the other, whatever the user types.
NextMenu ==
    \/ Input
    \/ Default
    \/ Quit
    \/ UpdateServer
    \/ StageWithoutArgument
    \/ Operation

SpecMenu == InitMenu /\ [][NextMenu]_vars

\* ------------------------------------------------- the stages on their own
\* Calls of the three stages, in the order of _update_mods_only, that may be
\* made in one behaviour.
MaxStageCalls == 2

\* A content tree already in lower case, with two key files of one name of
\* different content and a key file named like the one of another mod.
KeyTree ==
    {File(<<"ace.bikey">>, "ace-key-2"), Dir(<<"keys">>),
     File(<<"keys", "ace.bikey">>, "ace-key-3"), File(<<"cba.bikey">>, "cba-key-2")}

\* The content trees a workshop directory may hold when the stages start.
StageTrees == {RemoteTree("101"), RemoteTree("202"), KeyTree}

\* The values of updated_mods _update_mods may return: a non-empty dictionary
\* of mods of the list, in insertion order.
StageArguments == {<<"@ace">>, <<"@cba">>, <<"@ace", "@cba">>, <<"@cba", "@ace">>}

\* _update_mods has returned a non-empty updated_mods and _lower_case_mods is
\* about to start: any directory may exist, with any of the trees, and
\* anything may be at a link path.
InitStages ==
    /\ server = "A3"
    /\ idOf \in ModsLists
    /\ order = <<"@ace", "@cba">>
    /\ dir \in [Ids -> BOOLEAN]
    /\ ctime = [i \in Ids |-> IF dir[i] THEN 1 ELSE 0]
    /\ content \in [Ids -> StageTrees \cup {{}}]
    /\ \A i \in Ids : content[i] = {} <=> ~dir[i]
    /\ link \in [Names -> LinkStates]
    /\ keys = {File(<<"ace.bikey">>, "old-key")}
    /\ remote = [i \in Ids |-> 0]
    /\ clock = 2
    /\ pc = "_lower_case_mods"
    /\ idx = 1
    /\ is_dir = FALSE
    /\ tries = 0
    /\ updated_mods \in StageArguments
    /\ was_copied = FALSE
    /\ plan = [n \in Names |-> "none"]
    /\ term = [n \in Names |-> "none"]
    /\ fetchCount = [n \in Names |-> 0]
    /\ fetchResult = [n \in Names |-> "none"]
    /\ producedAfter = 0
    /\ netReads = [n \in Names |-> 0]
    /\ fetched = {}
    /\ keyReport = "none"
    /\ outcome = "none"
    /\ runs = 1
    /\ kills = 0
    /\ remoteUpdates = 0
    /\ missed = FALSE
    /\ init0 = [dir |-> dir, ctime |-> ctime, link |-> link, keys |-> keys,
                remote |-> remote]
    /\ selected = NoInput
    /\ warned = {}
    /\ callArg = NoCall
    /\ callRet = NoCall

\* A later pass of _update_mods has returned a non-empty updated_mods and
\* the stages start again; in between one content directory may have been
\* deleted, or fetched anew.
StagesAgain ==
    /\ pc = "prompt"
    /\ outcome = "returned"
    /\ runs < MaxStageCalls
    /\ runs' = runs + 1
    /\ pc' = "_lower_case_mods"
    /\ idx' = 1
    /\ updated_mods' \in StageArguments
    /\ warned' = {}
    /\ keyReport' = "none"
    /\ outcome' = "none"
    /\ \/ UNCHANGED <<dir, ctime, content>>
       \/ \E i \in Ids :
            IF dir[i]
            THEN /\ dir' = [dir EXCEPT ![i] = FALSE]
                 /\ ctime' = [ctime EXCEPT ![i] = 0]
                 /\ content' = [content EXCEPT ![i] = {}]
            ELSE /\ dir' = [dir EXCEPT ![i] = TRUE]
                 /\ ctime' = [ctime EXCEPT ![i] = clock]
                 /\ content' = [content EXCEPT ![i] = RemoteTree(i)]
    /\ UNCHANGED <<call, config, selected, link, keys, remote, clock, is_dir,
                   tries, was_copied, history, kills, remoteUpdates, missed>>

NextStages ==
    \/ LowerCaseMods
    \/ CreateModSymlinks
    \/ CopyKeyFiles
    \/ StagesAgain

SpecStages == InitStages /\ [][NextStages]_vars

\* ------------------------------------------------------------------ claims
\* The Updated-Mod Set: the keys of updated_mods.
UpdatedSet == {updated_mods[k] : k \in 1..Len(updated_mods)}

\* The loop of _update_mods has handled every mod and is about to return.
PassEnded == pc = "_update_mods" /\ idx > Len(order)

\* The mod whose fetch path (_try_to_update_mod) is running or has just returned.
InFetchPath(n) ==
    \/ pc = "_try_to_update_mod" /\ n = order[idx]
    \/ /\ pc = "_update_mods" /\ idx > 1 /\ n = order[idx - 1]
       /\ term[n] \in {"UPDATED", "FAILED"}

\* No two names of the mods list share an id.
DistinctIds == \A m, n \in Names : idOf[m] = idOf[n] => m = n

\* C1: a mod whose directory was absent when its fetch path started and whose
\* directory exists after the k-th attempt, k in 1..10, gets no attempt after
\* the k-th, ends UPDATED (in the Updated-Mod Set) and is not reported FAILED.
C1_ProducedModIsUpdated ==
    \A n \in Names :
        (InFetchPath(n) /\ plan[n] = "ABSENT" /\ producedAfter \in 1..MaxTries)
        => /\ fetchCount[n] = producedAfter
           /\ term[n] # "FAILED"
           /\ term[n] # "none" => term[n] = "UPDATED" /\ n \in UpdatedSet

\* C2: a mod whose directory exists and is judged stale has its directory
\* deleted first and then, before it reaches a terminal state, at least one
\* run of the fetcher.
C2_StaleModIsDeletedThenFetched ==
    \A n \in Names :
        plan[n] = "PRESENT_STALE"
        => /\ (pc = "_try_to_update_mod" /\ n = order[idx] /\ tries = 0)
                => ~dir[idOf[n]]
           /\ term[n] # "none" => fetchCount[n] >= 1

\* C3: at the end of a pass a mod is in the Updated-Mod Set exactly when its
\* directory exists and was produced by a fetch of this pass.
C3_UpdatedSetIffFetchedThisPass ==
    PassEnded
    => \A n \in Names : n \in UpdatedSet <=> (dir[idOf[n]] /\ idOf[n] \in fetched)

\* C4: with a fetcher that never produces the directory, a mod needing a
\* fetch (absent, or stale and deleted) gets exactly 10 runs of the fetcher
\* and is then reported FAILED and kept out of the Updated-Mod Set; there is
\* never an 11th run.
C4_TenAttemptsThenFailed ==
    \A n \in Names :
        /\ fetchCount[n] <= MaxTries
        /\ (/\ term[n] # "none"
            /\ plan[n] \in {"ABSENT", "PRESENT_STALE"}
            /\ fetchResult[n] \notin {"first", "later"})
           => /\ fetchCount[n] = MaxTries
              /\ term[n] = "FAILED"
              /\ n \notin UpdatedSet

\* The part of C4 the code keeps: the same statement for the mods found ABSENT.
AbsentModTenAttemptsThenFailed ==
    \A n \in Names :
        /\ fetchCount[n] <= MaxTries
        /\ (term[n] # "none" /\ plan[n] = "ABSENT")
           => fetchCount[n] = MaxTries /\ term[n] = "FAILED" /\ n \notin UpdatedSet

\* C5: two mods with ids of their own, both absent, one whose fetch never
\* produces its directory and one whose first fetch does: at the end of the
\* pass the Updated-Mod Set holds exactly the second, and the first is FAILED.
C5_FailingModDoesNotBlockOther ==
    \A a, b \in Names :
        (/\ PassEnded /\ a # b /\ idOf[a] # idOf[b]
         /\ plan[a] = "ABSENT" /\ plan[b] = "ABSENT"
         /\ fetchResult[a] = "first" /\ fetchResult[b] = "never")
        => UpdatedSet = {a} /\ term[b] = "FAILED"

C7_SecondRunSkipsAll ==
    (PassEnded /\ runs = 2 /\ kills = 0 /\ remoteUpdates = 0 /\ ~missed)
    => /\ updated_mods = <<>>
       /\ \A n \in Names : /\ term[n] = "SKIPPED"
                           /\ plan[n] = "PRESENT_FRESH"
                           /\ fetchCount[n] = 0

\* C8: the three stages start only from the end of the reconciliation pass,
\* with every mod in a terminal state and a non-empty Updated-Mod Set, and
\* run in the order _lower_case_mods, _create_mod_symlinks, _copy_key_files;
\* every mod a stage is given was reported UPDATED; a rename, a link and a
\* key copy happen only in their stage and only for a mod reported UPDATED;
\* with an empty Updated-Mod Set no stage is entered.
C8_StagesOnlyAfterPassOnUpdated ==
    [][/\ (pc' \in Stages /\ pc \notin Stages)
            => /\ PassEnded
               /\ pc' = "_lower_case_mods"
               /\ \A n \in Names : term[n] # "none"
               /\ \E n \in Names : term[n] = "UPDATED"
       /\ pc = "_lower_case_mods"
            => pc' \in {"_lower_case_mods", "_create_mod_symlinks", "prompt"}
       /\ pc = "_create_mod_symlinks"
            => pc' \in {"_create_mod_symlinks", "_copy_key_files", "prompt", "crashed"}
       /\ pc = "_copy_key_files" => pc' \in {"_copy_key_files", "prompt", "crashed"}
       /\ (pc \in Stages /\ pc' = "prompt" /\ outcome' # "returned")
            => kills' = kills + 1
       /\ pc' \in Stages => \A n \in UpdatedSet' : term'[n] = "UPDATED"
       /\ \A i \in Ids :
            (dir[i] /\ dir'[i] /\ content'[i] # content[i])
            => /\ pc = "_lower_case_mods"
               /\ \E n \in Names : term[n] = "UPDATED" /\ idOf[n] = i
       /\ \A n \in Names :
            link'[n] # link[n]
            => pc = "_create_mod_symlinks" /\ term[n] = "UPDATED"
       /\ keys' # keys
            => /\ pc = "_copy_key_files"
               /\ \E n \in Names : term[n] = "UPDATED" /\ dir[idOf[n]]
       /\ (PassEnded /\ \A n \in Names : term[n] # "UPDATED")
            => pc' \notin Stages /\ filesystem' = filesystem]_vars

\* C8 witness: an operation has returned after all three stages acted: a
\* content tree was renamed, a link was made and a key was copied.
C8_Witness ==
    /\ pc = "prompt" /\ outcome = "returned" /\ keyReport = "success"
    /\ \E n \in Names : /\ term[n] = "UPDATED"
                        /\ init0.link[n] = NoEntry /\ link[n] = idOf[n]
                        /\ content[idOf[n]] # RemoteTree(idOf[n])
    /\ keys # init0.keys

\* C9: when the first operation, uninterrupted, has returned, every mod for
\* which a fetch attempt produced the content directory and at whose link
\* path nothing existed has a symbolic link to its content directory.
C9_ProducedModIsLinked ==
    (pc = "prompt" /\ outcome = "returned" /\ runs = 1 /\ kills = 0)
    => \A n \in Names :
          (fetchResult[n] \in {"first", "later"} /\ init0.link[n] = NoEntry)
          => link[n] = idOf[n]

\* The oracle's answer in the initial state for a directory that exists.
InitiallyStale(i) ==
    init0.remote[i] # NoMarker /\ init0.remote[i] >= init0.ctime[i]

\* Where one uninterrupted operation from the initial state ends, every id
\* being the id of one mod, no remote update published and every fetch
\* producing its directory: a stale directory is gone, every other directory
\* is there, links and keys are the initial ones.
OneRunDirs == {i \in Ids : ~(init0.dir[i] /\ InitiallyStale(i))}

\* The uninterrupted operation from the initial state ends as OneRunDirs says.
UninterruptedRunOutcome ==
    (/\ pc = "prompt" /\ outcome = "returned" /\ runs = 1 /\ kills = 0
     /\ remoteUpdates = 0 /\ ~missed /\ DistinctIds)
    => /\ {i \in Ids : dir[i]} = OneRunDirs
       /\ link = init0.link
       /\ keys = init0.keys

\* C10: an operation killed at some step and then run again to completion
\* (no remote update, every fetch producing its directory) ends with the
\* content directories, links and keys of one uninterrupted operation from
\* the same initial state.
C10_RerunAfterKillEndsAsOneRun ==
    (/\ pc = "prompt" /\ outcome = "returned" /\ runs = 2 /\ kills = 1
     /\ remoteUpdates = 0 /\ ~missed /\ DistinctIds)
    => /\ {i \in Ids : dir[i]} = OneRunDirs
       /\ link = init0.link
       /\ keys = init0.keys

\* C11: the Link Manager never changes a link path that holds a symbolic
\* link (whatever it points to, whether or not its target exists): it never
\* removes or retargets one; what it changes is a link path that held
\* nothing, in the iteration for that mod, to a link to the mod's content
\* directory, which exists. So calls for the same mod make one link, once.
C11_LinkManagerLeavesLinks ==
    [][\A n \in Names :
          /\ link[n] \in Ids => link'[n] = link[n]
          /\ link'[n] # link[n]
               => /\ pc = "_create_mod_symlinks" /\ n = updated_mods[idx]
                  /\ link[n] = NoEntry
                  /\ link'[n] = idOf[n]
                  /\ dir[idOf[n]]]_vars

\* C11 witness: the stages were called twice, and in the second call the Link
\* Manager has handled a mod whose content directory exists and whose link
\* path held, from the start, a symbolic link to another directory.
C11_Witness ==
    /\ pc = "_copy_key_files" /\ runs = 2
    /\ \E n \in UpdatedSet : /\ init0.link[n] \in Ids \ {idOf[n]}
                             /\ dir[idOf[n]]
                             /\ link[n] = init0.link[n]

\* Every name of the tree, at every depth, is lower-case.
AllLower(t) == \A e \in t : LowerPath(e.path) = e.path

\* C12: an iteration of the Layout Normalizer in which no rename is refused
\* leaves every file and directory name of the mod's content tree, at every
\* depth, lower-case (MixedCase.PBO inside UPPER_DIR ends at
\* upper_dir/mixedcase.pbo).
C12_EveryNameLowerCase ==
    [][(pc = "_lower_case_mods" /\ idx <= Len(updated_mods))
          => LET i == idOf[updated_mods[idx]]
             IN (dir[i] /\ content'[i] = LowerCaseTree(content[i], <<>>, {}))
                => AllLower(content'[i])]_vars

\* ---------------------------------------------- the Staleness Oracle alone
\* The latest time of the calls of the oracle on its own.
MaxTime == 6

\* The oracle is about to be called with a path that is a directory or not,
\* a response with a timestamp or none, and a creation time.
InitOracle ==
    /\ callArg \in [isdir : BOOLEAN, marker : {NoMarker} \cup (0..MaxTime),
                     created : 0..MaxTime]
    /\ callRet = NoCall
    /\ server = "A3"
    /\ idOf = [n \in Names |-> "101"]
    /\ order = <<"@ace", "@cba">>
    /\ dir = [i \in Ids |-> FALSE]
    /\ ctime = [i \in Ids |-> 0]
    /\ content = [i \in Ids |-> {}]
    /\ link = [n \in Names |-> NoEntry]
    /\ keys = {}
    /\ remote = [i \in Ids |-> NoMarker]
    /\ clock = MaxTime
    /\ pc = "_mod_needs_update"
    /\ idx = 1
    /\ is_dir = FALSE
    /\ tries = 0
    /\ updated_mods = <<>>
    /\ was_copied = FALSE
    /\ plan = [n \in Names |-> "none"]
    /\ term = [n \in Names |-> "none"]
    /\ fetchCount = [n \in Names |-> 0]
    /\ fetchResult = [n \in Names |-> "none"]
    /\ producedAfter = 0
    /\ netReads = [n \in Names |-> 0]
    /\ fetched = {}
    /\ keyReport = "none"
    /\ outcome = "none"
    /\ runs = 0
    /\ kills = 0
    /\ remoteUpdates = 0
    /\ missed = FALSE
    /\ init0 = [dir |-> dir, ctime |-> ctime, link |-> link, keys |-> keys,
                remote |-> remote]
    /\ selected = NoInput
    /\ warned = {}

\* The call of _mod_needs_update returns.
CallModNeedsUpdate ==
    /\ pc = "_mod_needs_update"
    /\ callRet = NoCall
    /\ callRet' = NeedsUpdate(callArg.isdir, callArg.marker, callArg.created)
    /\ pc' = "returned"
    /\ UNCHANGED <<callArg, config, filesystem, remote, clock, idx, is_dir,
                   tries, updated_mods, was_copied, history, keyReport, outcome,
                   runs, kills, remoteUpdates, missed, selected, warned>>

SpecOracle == InitOracle /\ [][CallModNeedsUpdate]_vars

\* C13: the oracle answers false for a path that is not a directory and for
\* a response with no timestamp marker; otherwise its answer is exactly
\* remote_updated_at >= local_created_at: true when the creation time is
\* strictly before the remote update time, false when strictly after.
C13_OracleAnswer ==
    pc = "returned"
    => /\ ~callArg.isdir => callRet = FALSE
       /\ callArg.marker = NoMarker => callRet = FALSE
       /\ (callArg.isdir /\ callArg.marker # NoMarker)
            => /\ callRet = (callArg.marker >= callArg.created)
               /\ callArg.created < callArg.marker => callRet = TRUE
               /\ callArg.created > callArg.marker => callRet = FALSE

\* C13 witness: the oracle has answered true for a directory created at the
\* very time of the remote update.
C13_Witness ==
    /\ pc = "returned" /\ callRet = TRUE
    /\ callArg.isdir /\ callArg.marker = callArg.created

\* The bare name of an entry.
BareName(e) == e.path[Len(e.path)]

\* The files ending in .bikey of the content trees of the mods the stages
\* were given.
GivenKeyFiles ==
    {e \in UNION {content[idOf[n]] : n \in UpdatedSet} :
        e.kind = "f" /\ EndsWithBikey(BareName(e))}

\* A call of the stages has returned from the Key Propagator.
KeysReturned == pc = "prompt" /\ outcome = "returned" /\ keyReport # "none"

\* C14 as stated: the Key Propagator reports "nothing to copy" exactly when
\* no file ending in .bikey is in a content tree of the mods given and
\* success exactly when there is one, and on success every such file has an
\* identical copy in the keys directory under its bare name.
C14_EveryKeyFileCopied ==
    KeysReturned
    => /\ keyReport = "nothing" <=> GivenKeyFiles = {}
       /\ keyReport = "success" <=> GivenKeyFiles # {}
       /\ \A e \in GivenKeyFiles : File(<<BareName(e)>>, e.data) \in keys

\* C14 amended: the reports are as stated; on success the keys directory
\* holds, for every name of a key file found, one file of that name,
\* identical to one of the files found under that name (to each of them
\* when they do not differ), whatever was there under that name before; the
\* first call keeps every file of the keys directory of any other name.
C14_EveryKeyNameCopied ==
    KeysReturned
    => /\ keyReport = "nothing" <=> GivenKeyFiles = {}
       /\ keyReport = "success" <=> GivenKeyFiles # {}
       /\ \A e \in GivenKeyFiles :
            /\ \E f \in GivenKeyFiles :
                 BareName(f) = BareName(e) /\ File(<<BareName(e)>>, f.data) \in keys
            /\ Cardinality({k \in keys : k.path = <<BareName(e)>>}) = 1
       /\ runs = 1
            => \A k \in init0.keys :
                 (\A e \in GivenKeyFiles : <<BareName(e)>> # k.path) => k \in keys

\* C14 witness: the Key Propagator has reported success after finding two
\* key files of one name and different content, the name of a file the
\* keys directory held before.
C14_Witness ==
    /\ KeysReturned /\ keyReport = "success" /\ runs = 1
    /\ \E e, f \in GivenKeyFiles :
         /\ BareName(e) = BareName(f) /\ e.data # f.data
         /\ PathExists(init0.keys, <<BareName(e)>>)

\* C15: the iteration of the Link Manager on a mod whose content directory
\* is missing makes no link, prints the warning and ends nothing: with mods
\* left the loop goes on to the next one, after the last mod the Key
\* Propagator starts.
C15_MissingTargetIsPassedOver ==
    [][(/\ pc = "_create_mod_symlinks" /\ idx <= Len(updated_mods)
        /\ ~dir[idOf[updated_mods[idx]]])
          => /\ link' = link
             /\ updated_mods[idx] \in warned'
             /\ updated_mods' = updated_mods
             /\ IF idx < Len(updated_mods)
                THEN pc' = "_create_mod_symlinks" /\ idx' = idx + 1
                ELSE pc' = "_copy_key_files" /\ idx' = 1]_vars

\* C15 witness: the Key Propagator starts after the Link Manager warned about
\* the first of two mods, left its link path empty, and linked the second.
C15_Witness ==
    /\ pc = "_copy_key_files" /\ runs = 1 /\ Len(updated_mods) = 2
    /\ LET m == updated_mods[1]
           n == updated_mods[2]
       IN /\ warned = {m} /\ link[m] = NoEntry
          /\ init0.link[n] = NoEntry /\ link[n] = idOf[n]

\* C16: a rename the operating system refuses in the Layout Normalizer and a
\* key-file copy it refuses in the Key Propagator end neither the stage nor
\* the run: every step of the Normalizer leads to its next mod or to the
\* Link Manager, every step of the Key Propagator to its next mod or to the
\* report and the prompt.
C16_FailureDoesNotAbort ==
    [][/\ (pc = "_lower_case_mods" /\ idx <= Len(updated_mods))
            => IF idx < Len(updated_mods)
               THEN pc' = "_lower_case_mods" /\ idx' = idx + 1
               ELSE pc' = "_create_mod_symlinks"
       /\ (pc = "_copy_key_files" /\ idx <= Len(updated_mods))
            => IF idx < Len(updated_mods)
               THEN pc' = "_copy_key_files" /\ idx' = idx + 1
               ELSE pc' = "prompt" /\ outcome' = "returned"]_vars

\* C17: in a pass the changelog is read at most once for each mod, and not
\* at all for a mod whose directory is absent.
C17_OneChangelogReadPerMod ==
    \A n \in Names :
        /\ netReads[n] <= 1
        /\ plan[n] = "ABSENT" => netReads[n] = 0

\* The terminal state of a mod as a function of nothing but the initial
\* state of its own content directory.
OwnTerm(n) ==
    IF ~init0.dir[idOf[n]] THEN "FAILED"
    ELSE IF InitiallyStale(idOf[n]) THEN "UPDATED"
    ELSE "SKIPPED"

\* Whether the content directory of a mod exists at the end of the pass, as
\* a function of its own initial state and of what the fetcher did for it.
OwnDir(n) ==
    IF ~init0.dir[idOf[n]] THEN fetchResult[n] \in {"first", "later"}
    ELSE ~InitiallyStale(idOf[n])

\* The first pass from the initial state has ended, uninterrupted, with the
\* remote state it started from.
FirstPassEnded == PassEnded /\ runs = 1 /\ kills = 0 /\ remoteUpdates = 0

\* At the end of the pass every mod ended as its own initial state and its
\* own fetcher behaviour determine, whatever the order of the mods.
EndsAsOwnStateSays ==
    \A n \in Names :
        /\ term[n] = OwnTerm(n)
        /\ n \in UpdatedSet <=> OwnTerm(n) = "UPDATED"
        /\ dir[idOf[n]] = OwnDir(n)

\* C18 as stated: in either order of any mods list, from the same initial
\* state and with the same fetcher behaviour for each mod, each mod reaches
\* the same terminal state, the Updated-Mod Set is the same and the same
\* content directories exist at the end.
C18_OrderDoesNotMatter == FirstPassEnded => EndsAsOwnStateSays

\* C18 amended: the same for a mods list in which no two names share an id.
C18_OrderDoesNotMatterDistinctIds ==
    (FirstPassEnded /\ DistinctIds) => EndsAsOwnStateSays

\* C18 witness: a pass over two mods of different ids has ended, processed
\* in the second order, the one handled first FAILED after a fetch that
\* produced its directory, the one handled last UPDATED.
C18_Witness ==
    /\ FirstPassEnded /\ DistinctIds
    /\ order = <<"@cba", "@ace">>
    /\ term["@cba"] = "FAILED" /\ fetchResult["@cba"] = "later"
    /\ term["@ace"] = "UPDATED"

\* run_choice is about to look up a string the menu of the server does not offer.
InvalidChoice == pc = "run_choice" /\ LowerInput(selected) \notin Offered(server)

\* C19: an input the menu of the server type does not offer runs no
\* operation (no fetch, deletion, rename, link or key copy), has the options
\* printed and the prompt shown again; q and Q end the process; and the
\* options are printed and the prompt shown again in no other step, in
\* particular in no step of an operation.
C19_OnlyInvalidChoiceReprompts ==
    [][/\ InvalidChoice
            => /\ pc' = "prompt" /\ outcome' = "options"
               /\ UNCHANGED <<filesystem, history, runs, updated_mods>>
       /\ (pc = "run_choice" /\ selected \in {"q", "Q"})
            => pc' = "exited" /\ UNCHANGED <<filesystem, history, runs>>
       /\ (pc # "prompt" /\ pc' = "prompt" /\ outcome' = "options")
            => InvalidChoice]_vars

\* C19 witness: after a pass of update-mods that reported a mod updated, an
\* input the menu does not offer has had the options printed.
C19_Witness ==
    /\ pc = "prompt" /\ outcome = "options" /\ runs = 1
    /\ \E n \in Names : term[n] = "UPDATED"

\* C20: an offered letter other than q starts its operation and never ends
\* the menu loop with an unhandled error; on an Arma 3 server d starts the
\* Link Manager, e the Layout Normalizer and f the Key Propagator.
C20_OfferedLetterRunsItsOperation ==
    [][/\ pc' # "crashed"
       /\ Dispatches("A3", {"d"}) => pc' \in {"_create_mod_symlinks", "prompt"}
       /\ Dispatches("A3", {"e"}) => pc' \in {"_lower_case_mods", "prompt"}
       /\ Dispatches("A3", {"f"}) => pc' \in {"_copy_key_files", "prompt"}]_vars

====
